---- MODULE Spec2Model ----
(***************************************************************************)
(* Model of the headless window of servoshell                              *)
(* (ports/servoshell/desktop/headless_window.rs).                          *)
(*                                                                         *)
(* Sizes are pairs <<width, height>> of integers.  An Option is a sequence *)
(* of length at most one: <<>> is None and <<x>> is Some(x).  A Scale is a *)
(* pair <<num, den>> standing for the f32 num/den; the model uses quarters *)
(* and wholes only, which f32 holds exactly.  Window is !Sync (its fields  *)
(* are Cells), so its methods run one at a time: each is one action.       *)
(***************************************************************************)
EXTENDS Integers, Sequences, FiniteSets, TLC

\* Largest width of a construction size or of a resize request, and the
\* height of both.  The code treats the two dimensions alike, so the widths
\* range from 1 to MaxWidth while the height is MaxHeight (or, in a request,
\* 0 as well).
MaxWidth == 2
MaxHeight == 1
\* Largest number of changes of inner_size, and so of events pushed on the
\* queue, in one behaviour.
MaxEvents == 2

\* Sizes a window can be constructed with (Size2D<u32>, positive).
NewSizes == (1..MaxWidth) \X {MaxHeight}
\* Sizes request_inner_size can be asked for (DeviceIntSize, any sign):
\* negative, zero and positive widths, zero and positive heights.
RequestSizes == ((-1)..MaxWidth) \X {0, MaxHeight}
\* Values of the --device-pixel-ratio option: None, 0.75, 1.5, 2.0.
RatioOverrides == {<<>>, << <<3, 4>> >>, << <<3, 2>> >>, << <<2, 1>> >>}
\* Values of opts::get().screen_size_override.
ScreenSizeOverrides == {<<>>, << <<3, 3>> >>}
\* Sizes the holder of a clone of the rendering context can resize the
\* surface to, behind the window's back: one, taller than any size the
\* window is constructed with or asked for.
OutOfBandSizes == {<<1, MaxHeight + 1>>}
\* Answers of rendering_context.context_surface_info(): Ok(Some(info)),
\* Ok(None), Err(error).
SurfaceInfoAnswers == {"some", "none", "err"}

VARIABLES
    surface_size,                 \* size rendering_context's surface was created with or last resized to
    animation_state,              \* "Idle" or "Animating"
    fullscreen,                   \* BOOLEAN
    device_pixel_ratio_override,  \* Option<Scale>
    inner_size,                   \* DeviceIntSize
    screen_size,                  \* Size2D<i32>
    window_rect,                  \* Box2D<i32>: [min, max]
    event_queue,                  \* the Vec inside the RwLock
    poisoned,                     \* whether the RwLock is poisoned
    op,                           \* the call that produced this state, with its argument and result
    pushed,                       \* number of events pushed so far
    delivered,                    \* every event get_events has returned so far, in order
    constructed,                  \* the arguments Window::new was called with
    size_changes                  \* number of times inner_size has changed value

vars == <<surface_size, animation_state, fullscreen, device_pixel_ratio_override,
          inner_size, screen_size, window_rect, event_queue, poisoned, op,
          pushed, delivered, constructed, size_changes>>

\* Everything but the record of the last call.
window == <<surface_size, animation_state, fullscreen, device_pixel_ratio_override,
            inner_size, screen_size, window_rect, event_queue, poisoned,
            pushed, delivered, constructed, size_changes>>

\* ---------------------------------------------------------------------
\* euclid helpers

\* std's max on i32.
max(a, b) == IF a >= b THEN a ELSE b

\* Mutant of to_i32: rounds to the nearest integer instead of truncating.
to_i32_round(num, den) == (2 * num + den) \div (2 * den)

\* Size2D<f32>::to_i32 on one non-negative component num/den: a cast, which
\* drops the fraction.
to_i32(num, den) == num \div den

\* Option<Scale>::unwrap_or_else(Scale::identity).
unwrap_or_identity(override) == IF override = <<>> THEN <<1, 1>> ELSE override[1]

\* (size.to_f32() * hidpi_factor).to_i32()
scale_to_i32(size, scale) ==
    <<to_i32(size[1] * scale[1], scale[2]), to_i32(size[2] * scale[1], scale[2])>>

\* Box2D::from_origin_and_size.
from_origin_and_size(origin, size) ==
    [min |-> origin, max |-> <<origin[1] + size[1], origin[2] + size[2]>>]

\* Box2D::size.
box_size(b) == <<b.max[1] - b.min[1], b.max[2] - b.min[2]>>

\* EmbedderEvent::WindowResize; seq numbers the pushes so that two events
\* can be told apart.
WindowResize(n) == [type |-> "WindowResize", seq |-> n]

\* The record of a call: its name, argument, what the surface was asked to
\* resize to (if anything) and answered, and what the call returned.
Call(name, arg, resize_arg, resize_res, repeat, ret) ==
    [name |-> name, arg |-> arg, resize_arg |-> resize_arg,
     resize_res |-> resize_res, repeat |-> repeat, ret |-> ret]

\* ---------------------------------------------------------------------
\* Window::new

Init ==
    \E size \in NewSizes, ratio \in RatioOverrides, screen \in ScreenSizeOverrides :
        LET hidpi_factor == unwrap_or_identity(ratio)
            rect == from_origin_and_size(<<0, 0>>, size)
        IN  /\ surface_size = size
            /\ animation_state = "Idle"
            /\ fullscreen = FALSE
            /\ device_pixel_ratio_override = ratio
            /\ inner_size = scale_to_i32(size, hidpi_factor)
            /\ window_rect = rect
            /\ screen_size = IF screen = <<>> THEN box_size(rect) ELSE screen[1]
            /\ event_queue = <<>>
            /\ poisoned = FALSE
            /\ op = Call("new", <<size>>, <<>>, "none", FALSE, <<>>)
            /\ pushed = 0
            /\ delivered = <<>>
            /\ constructed = [size |-> size, device_pixel_ratio_override |-> ratio,
                               screen_size_override |-> screen]
            /\ size_changes = 0

\* ---------------------------------------------------------------------
\* The event queue

\* Mutant of take: nothing is handed out and the Vec stays as it was.
take_nothing(queue) == [ret |-> <<>>, left |-> queue]

\* Mutant of take: hands out a copy and leaves the Vec as it was.
take_clone(queue) == [ret |-> queue, left |-> queue]

\* Mutant of take: empties the Vec but loses its last element.
take_drop_last(queue) ==
    [ret |-> IF queue = <<>> THEN <<>> ELSE SubSeq(queue, 1, Len(queue) - 1),
     left |-> <<>>]

\* std::mem::take on the guarded Vec: returns its contents and leaves
\* Vec::default() in its place.
take(queue) == [ret |-> queue, left |-> <<>>]

\* Mutant of push: the event is dropped.
push_nothing(queue, event) == queue

\* Mutant of push: the event is pushed twice.
push_twice(queue, event) == Append(Append(queue, event), event)

\* Vec::push under the write guard.
push(queue, event) == Append(queue, event)

\* A writer panics while it holds the write guard: from then on
\* event_queue.write() answers Err(PoisonError).
PoisonLock ==
    /\ ~poisoned
    /\ poisoned' = TRUE
    /\ op' = Call("poison", <<>>, <<>>, "none", FALSE, <<>>)
    /\ UNCHANGED <<surface_size, animation_state, fullscreen,
                   device_pixel_ratio_override, inner_size, screen_size,
                   window_rect, event_queue, pushed, delivered, constructed,
                   size_changes>>

\* Mutant of GetEvents: the queue is taken whether or not the lock could be
\* obtained.
GetEvents_IgnoresPoison ==
    LET taken == take(event_queue)
    IN  /\ event_queue' = taken.left
        /\ delivered' = delivered \o taken.ret
        /\ op' = Call("get_events", <<>>, <<>>, "none", FALSE, taken.ret)
        /\ UNCHANGED <<surface_size, animation_state, fullscreen,
                       device_pixel_ratio_override, inner_size, screen_size,
                       window_rect, poisoned, pushed, constructed, size_changes>>

\* WindowPortsMethods::get_events
GetEvents ==
    LET taken == IF poisoned THEN [ret |-> <<>>, left |-> event_queue]
                             ELSE take(event_queue)
    IN  /\ event_queue' = taken.left
        /\ delivered' = delivered \o taken.ret
        /\ op' = Call("get_events", <<>>, <<>>, "none", FALSE, taken.ret)
        /\ UNCHANGED <<surface_size, animation_state, fullscreen,
                       device_pixel_ratio_override, inner_size, screen_size,
                       window_rect, poisoned, pushed, constructed, size_changes>>

\* ---------------------------------------------------------------------
\* Resizing

\* Mutant of clamp: the lower limit is 0 instead of 1.
clamp_to_zero(size) == <<max(size[1], 0), max(size[2], 0)>>

\* DeviceIntSize::new(size.width.max(1), size.height.max(1))
clamp(size) == <<max(size[1], 1), max(size[2], 1)>>

\* Mutant of same_size: the early return is never taken.
never_same_size(current, new_size) == FALSE

\* self.inner_size.get() == new_size
same_size(current, new_size) == current = new_size

\* Mutant of inner_size_after_resize: inner_size is set before the surface
\* has answered.
inner_size_set_first(current, new_size, ok) == new_size

\* The value of inner_size when the match on rendering_context.resize() is
\* done: set in the Ok arm, left alone in the Err arm.
inner_size_after_resize(current, new_size, ok) == IF ok THEN new_size ELSE current

\* WindowPortsMethods::request_inner_size; ok is the surface's answer to
\* rendering_context.resize(), should the call get that far.
RequestInnerSize(size, ok) ==
    LET new_size == clamp(size)
        repeat == /\ op.name = "request_inner_size"
                  /\ op.ret # <<>>
                  /\ clamp(op.arg[1]) = new_size
    IN  /\ size_changes < MaxEvents
        /\ IF same_size(inner_size, new_size)
           THEN /\ op' = Call("request_inner_size", <<size>>, <<>>, "none",
                              repeat, <<new_size>>)
                /\ UNCHANGED <<surface_size, inner_size, event_queue, pushed>>
           ELSE /\ inner_size' = inner_size_after_resize(inner_size, new_size, ok)
                /\ surface_size' = IF ok THEN new_size ELSE surface_size
                /\ IF ok /\ ~poisoned
                   THEN /\ event_queue' = push(event_queue, WindowResize(pushed + 1))
                        /\ pushed' = pushed + 1
                   ELSE UNCHANGED <<event_queue, pushed>>
                /\ op' = Call("request_inner_size", <<size>>, <<new_size>>,
                              IF ok THEN "ok" ELSE "err", repeat,
                              IF ok THEN <<new_size>> ELSE <<>>)
        /\ size_changes' = IF inner_size' = inner_size THEN size_changes
                                                        ELSE size_changes + 1
        /\ UNCHANGED <<animation_state, fullscreen, device_pixel_ratio_override,
                       screen_size, window_rect, poisoned, delivered, constructed>>

\* ---------------------------------------------------------------------
\* Flags

\* Mutant of SetFullscreen: the animation state is reset along with it.
SetFullscreen_ResetsAnimation(state) ==
    /\ fullscreen' = state
    /\ animation_state' = "Idle"
    /\ op' = Call("set_fullscreen", <<state>>, <<>>, "none", FALSE, <<>>)
    /\ UNCHANGED <<surface_size, device_pixel_ratio_override,
                   inner_size, screen_size, window_rect, event_queue, poisoned,
                   pushed, delivered, constructed, size_changes>>

\* WindowPortsMethods::set_fullscreen
SetFullscreen(state) ==
    /\ fullscreen' = state
    /\ op' = Call("set_fullscreen", <<state>>, <<>>, "none", FALSE, <<>>)
    /\ UNCHANGED <<surface_size, animation_state, device_pixel_ratio_override,
                   inner_size, screen_size, window_rect, event_queue, poisoned,
                   pushed, delivered, constructed, size_changes>>

\* WindowMethods::set_animation_state
SetAnimationState(state) ==
    /\ animation_state' = state
    /\ op' = Call("set_animation_state", <<state>>, <<>>, "none", FALSE, <<>>)
    /\ UNCHANGED <<surface_size, fullscreen, device_pixel_ratio_override,
                   inner_size, screen_size, window_rect, event_queue, poisoned,
                   pushed, delivered, constructed, size_changes>>

\* WindowPortsMethods::get_fullscreen
GetFullscreen ==
    /\ op' = Call("get_fullscreen", <<>>, <<>>, "none", FALSE, <<fullscreen>>)
    /\ UNCHANGED window

\* self.animation_state.get() == AnimationState::Animating
is_animating == animation_state = "Animating"

\* WindowPortsMethods::is_animating
IsAnimating ==
    /\ op' = Call("is_animating", <<>>, <<>>, "none", FALSE, <<is_animating>>)
    /\ UNCHANGED window

\* ---------------------------------------------------------------------
\* Geometry

\* Mutant of device_hidpi_factor: the override is applied.
device_hidpi_factor_overridden == unwrap_or_identity(device_pixel_ratio_override)

\* WindowPortsMethods::device_hidpi_factor
device_hidpi_factor == <<1, 1>>

\* WindowPortsMethods::hidpi_factor, a provided method of the trait.
hidpi_factor == device_hidpi_factor

\* A call of WindowPortsMethods::device_hidpi_factor.
DeviceHidpiFactor ==
    /\ op' = Call("device_hidpi_factor", <<>>, <<>>, "none", FALSE,
                  <<device_hidpi_factor>>)
    /\ UNCHANGED window

\* WindowPortsMethods::device_pixel_ratio_override
DevicePixelRatioOverride ==
    /\ op' = Call("device_pixel_ratio_override", <<>>, <<>>, "none", FALSE,
                  device_pixel_ratio_override)
    /\ UNCHANGED window

\* The holder of a clone of the rendering context (WindowMethods::
\* rendering_context) resizes the surface without the window's knowledge.
SurfaceResized(size) ==
    /\ surface_size # size
    /\ surface_size' = size
    /\ op' = Call("surface_resized", <<size>>, <<>>, "none", FALSE, <<>>)
    /\ UNCHANGED <<animation_state, fullscreen, device_pixel_ratio_override,
                   inner_size, screen_size, window_rect, event_queue, poisoned,
                   pushed, delivered, constructed, size_changes>>

\* Mutant of page_height: the height is read from the cached inner_size.
page_height_cached(info) ==
    LET height == IF info = <<>> THEN 0 ELSE inner_size[2]
    IN  <<height * hidpi_factor[1], hidpi_factor[2]>>

\* The f32 WindowPortsMethods::page_height returns, as <<num, den>>; info
\* is context_surface_info().unwrap_or(None) mapped to the surface's size.
page_height(info) ==
    LET height == IF info = <<>> THEN 0 ELSE info[1][2]
    IN  <<height * hidpi_factor[1], hidpi_factor[2]>>

\* A call of WindowPortsMethods::page_height; answer is what the surface
\* says when asked for its info.
PageHeight(answer) ==
    LET info == IF answer = "some" THEN <<surface_size>> ELSE <<>>
    IN  /\ op' = Call("page_height", <<answer>>, <<>>, "none", FALSE,
                      <<page_height(info)>>)
        /\ UNCHANGED window

\* Mutant of get_coordinates: the screen sizes follow inner_size.
get_coordinates_screen_from_inner ==
    [viewport |-> from_origin_and_size(<<0, 0>>, inner_size),
     framebuffer |-> inner_size,
     window_rect |-> window_rect,
     screen_size |-> inner_size,
     available_screen_size |-> inner_size,
     hidpi_factor |-> hidpi_factor]

\* Mutant of get_coordinates: the viewport and the framebuffer are taken
\* from the window rectangle.
get_coordinates_from_rect ==
    [viewport |-> window_rect,
     framebuffer |-> box_size(window_rect),
     window_rect |-> window_rect,
     screen_size |-> screen_size,
     available_screen_size |-> screen_size,
     hidpi_factor |-> hidpi_factor]

\* The EmbedderCoordinates built by WindowMethods::get_coordinates.
get_coordinates ==
    [viewport |-> from_origin_and_size(<<0, 0>>, inner_size),
     framebuffer |-> inner_size,
     window_rect |-> window_rect,
     screen_size |-> screen_size,
     available_screen_size |-> screen_size,
     hidpi_factor |-> hidpi_factor]

\* A call of WindowMethods::get_coordinates.
GetCoordinates ==
    /\ op' = Call("get_coordinates", <<>>, <<>>, "none", FALSE, <<get_coordinates>>)
    /\ UNCHANGED <<surface_size, animation_state, fullscreen,
                   device_pixel_ratio_override, inner_size, screen_size,
                   window_rect, event_queue, poisoned, pushed, delivered,
                   constructed, size_changes>>

\* ---------------------------------------------------------------------
\* Methods without a headless meaning

\* A call that touches nothing and returns ret.
Inert(name, ret) ==
    /\ op' = Call(name, <<>>, <<>>, "none", FALSE, ret)
    /\ UNCHANGED window

\* Mutant of QueueEmbedderEventsForWinitEvent: the winit event is turned
\* into an embedder event.
QueueEmbedderEventsForWinitEvent_Queues ==
    /\ op' = Call("queue_embedder_events_for_winit_event", <<>>, <<>>, "none",
                  FALSE, <<>>)
    /\ event_queue' = Append(event_queue, [type |-> "Keyboard", seq |-> 0])
    /\ UNCHANGED <<surface_size, animation_state, fullscreen,
                   device_pixel_ratio_override, inner_size, screen_size,
                   window_rect, poisoned, pushed, delivered, constructed,
                   size_changes>>

\* WindowPortsMethods::queue_embedder_events_for_winit_event
QueueEmbedderEventsForWinitEvent ==
    Inert("queue_embedder_events_for_winit_event", <<>>)

\* WindowPortsMethods::new_glwindow: unimplemented!()
NewGlwindow == Inert("new_glwindow", <<"unimplemented">>)

\* WindowPortsMethods::winit_window: None
WinitWindow == Inert("winit_window", <<>>)

\* WindowPortsMethods::toolbar_height: Length::zero()
ToolbarHeight == Inert("toolbar_height", <<0>>)

\* WindowPortsMethods::set_toolbar_height: unimplemented!()
SetToolbarHeight == Inert("set_toolbar_height", <<"unimplemented">>)

\* GlWindow::get_render_target: unimplemented!()
GetRenderTarget == Inert("get_render_target", <<"unimplemented">>)

\* GlWindow::get_rotation: Rotation3D::identity(), the quaternion (0,0,0,1)
GetRotation == Inert("get_rotation", << <<0, 0, 0, 1>> >>)

\* GlWindow::get_translation: Vector3D::zero()
GetTranslation == Inert("get_translation", << <<0, 0, 0>> >>)

\* ---------------------------------------------------------------------

Next ==
    \/ GetEvents
    \/ \E size \in RequestSizes, ok \in BOOLEAN : RequestInnerSize(size, ok)
    \/ \E state \in BOOLEAN : SetFullscreen(state)
    \/ \E state \in {"Idle", "Animating"} : SetAnimationState(state)
    \/ GetCoordinates
    \/ PoisonLock
    \/ GetFullscreen
    \/ IsAnimating
    \/ DeviceHidpiFactor
    \/ DevicePixelRatioOverride
    \/ \E size \in OutOfBandSizes : SurfaceResized(size)
    \/ \E answer \in SurfaceInfoAnswers : PageHeight(answer)
    \/ QueueEmbedderEventsForWinitEvent
    \/ NewGlwindow
    \/ WinitWindow
    \/ ToolbarHeight
    \/ SetToolbarHeight
    \/ GetRenderTarget
    \/ GetRotation
    \/ GetTranslation

Spec == Init /\ [][Next]_vars

\* The calls that write the event queue or its lock.  Every other call
\* leaves event_queue, poisoned and delivered alone and cannot disable
\* get_events, so it neither delays nor undoes a delivery.
QueueNext ==
    \/ GetEvents
    \/ \E size \in RequestSizes, ok \in BOOLEAN : RequestInnerSize(size, ok)
    \/ PoisonLock

\* The embedder's poll loop keeps calling get_events.
LiveSpec == Init /\ [][QueueNext]_vars /\ WF_vars(GetEvents)

\* ---------------------------------------------------------------------
\* Properties

\* The effective ratio of the window: the override, or 1.0 without one.
EffectiveRatio == IF device_pixel_ratio_override = <<>>
                  THEN <<1, 1>> ELSE device_pixel_ratio_override[1]

\* The logical size the window was constructed with.
LogicalSize == window_rect.max

\* r is x scaled by the ratio and rounded to a nearest integer (a tie may
\* go either way).
IsRounded(r, x, ratio) ==
    /\ 2 * (r * ratio[2] - x * ratio[1]) <= ratio[2]
    /\ 2 * (x * ratio[1] - r * ratio[2]) <= ratio[2]

\* r is x scaled by the ratio with the fraction dropped.
IsTruncated(r, x, ratio) ==
    /\ r * ratio[2] <= x * ratio[1]
    /\ x * ratio[1] < (r + 1) * ratio[2]

\* A requested size with each dimension raised to at least 1.
AtLeastOne(size) == <<IF size[1] < 1 THEN 1 ELSE size[1],
                      IF size[2] < 1 THEN 1 ELSE size[2]>>

\* The events pushed so far, in the order of their pushes.
AllPushed == [i \in 1..pushed |-> [type |-> "WindowResize", seq |-> i]]

\* C1: in every reachable state inner_size is the size the surface was
\* created with or was last successfully resized to.
C1_InnerSizeIsSurfaceSize == inner_size = surface_size

\* C2 as claimed: right after construction inner_size is the logical size
\* times the effective ratio, rounded to the nearest integer.
C2_InnerSizeRounded ==
    op.name = "new" =>
        /\ IsRounded(inner_size[1], LogicalSize[1], EffectiveRatio)
        /\ IsRounded(inner_size[2], LogicalSize[2], EffectiveRatio)

\* C2 as amended: right after construction inner_size is the logical size
\* times the effective ratio with the fraction dropped (truncation).
C2_InnerSizeTruncated ==
    op.name = "new" =>
        /\ IsTruncated(inner_size[1], LogicalSize[1], EffectiveRatio)
        /\ IsTruncated(inner_size[2], LogicalSize[2], EffectiveRatio)

\* A window just constructed whose scaled width had a fraction to drop.
C2_Witness ==
    /\ op.name = "new"
    /\ device_pixel_ratio_override # <<>>
    /\ inner_size[1] * EffectiveRatio[2] # LogicalSize[1] * EffectiveRatio[1]

\* C3: in every reachable state both dimensions of inner_size are at
\* least 1.
C3_InnerSizeAtLeastOne == inner_size[1] >= 1 /\ inner_size[2] >= 1

\* C4 as claimed: a request_inner_size call whose surface resize succeeds
\* appends exactly one window-resize event, whatever the state of the lock,
\* and one whose resize fails appends none.
C4_ResizeAlwaysEnqueuesOne ==
    [][op'.name = "request_inner_size" =>
         /\ op'.resize_res = "ok" =>
              /\ Len(event_queue') = Len(event_queue) + 1
              /\ SubSeq(event_queue', 1, Len(event_queue)) = event_queue
              /\ event_queue'[Len(event_queue')].type = "WindowResize"
         /\ op'.resize_res = "err" => event_queue' = event_queue]_vars

\* C4 as amended: a call whose surface resize succeeds appends exactly one
\* window-resize event when the lock is not poisoned and none when it is;
\* a call whose resize fails appends none.
C4_ResizeEnqueuesOneUnlessPoisoned ==
    [][op'.name = "request_inner_size" =>
         /\ (op'.resize_res = "ok" /\ ~poisoned) =>
              /\ Len(event_queue') = Len(event_queue) + 1
              /\ SubSeq(event_queue', 1, Len(event_queue)) = event_queue
              /\ event_queue'[Len(event_queue')].type = "WindowResize"
         /\ (op'.resize_res = "ok" /\ poisoned) => event_queue' = event_queue
         /\ op'.resize_res = "err" => event_queue' = event_queue]_vars

\* A successful resize under a healthy lock has queued its event behind an
\* earlier one.
C4_Witness ==
    /\ op.name = "request_inner_size"
    /\ op.resize_res = "ok"
    /\ ~poisoned
    /\ Len(event_queue) = 2

\* C5 as claimed: of two request_inner_size calls in a row with the same
\* clamped target, the second does not resize the surface, does not change
\* inner_size, enqueues nothing and returns what the first returned.
C5_SecondCallIsNoOp ==
    [][(/\ op.name = "request_inner_size"
        /\ op'.name = "request_inner_size"
        /\ AtLeastOne(op'.arg[1]) = AtLeastOne(op.arg[1])) =>
         /\ op'.resize_res # "ok"
         /\ surface_size' = surface_size
         /\ inner_size' = inner_size
         /\ event_queue' = event_queue
         /\ op'.ret = op.ret]_vars

\* C5 as amended: the same, when the first call returned a size; the second
\* call then does not even ask the surface.
C5_SecondCallIsNoOpAfterSuccess ==
    [][(/\ op.name = "request_inner_size"
        /\ op'.name = "request_inner_size"
        /\ op.ret # <<>>
        /\ AtLeastOne(op'.arg[1]) = AtLeastOne(op.arg[1])) =>
         /\ op'.resize_arg = <<>>
         /\ surface_size' = surface_size
         /\ inner_size' = inner_size
         /\ event_queue' = event_queue
         /\ op'.ret = op.ret]_vars

\* A second call with the target of a first call that resized the surface,
\* asked with a different raw size.
C5_Witness ==
    /\ op.name = "request_inner_size"
    /\ op.repeat
    /\ op.arg[1][1] < 1
    /\ pushed > 0

\* C6: a request_inner_size call that returns a size returns the requested
\* size with each dimension raised to at least 1, inner_size is that size
\* when the call is done, and the surface is never asked for a dimension
\* below 1.
C6_ReturnsClampedSize ==
    op.name = "request_inner_size" =>
        /\ op.ret # <<>> =>
             /\ op.ret[1] = AtLeastOne(op.arg[1])
             /\ inner_size = op.ret[1]
        /\ op.resize_arg # <<>> =>
             /\ op.resize_arg[1][1] >= 1
             /\ op.resize_arg[1][2] >= 1

\* A request with a negative width and a zero height has resized the
\* surface.
C6_Witness ==
    /\ op.name = "request_inner_size"
    /\ op.arg[1][1] < 0
    /\ op.arg[1][2] = 0
    /\ op.resize_res = "ok"

\* C7: a request_inner_size call whose surface resize fails returns None
\* and leaves inner_size, the event queue, the fullscreen flag, the
\* animation state, the window rectangle and the screen size as they were.
C7_FailedResizeChangesNothing ==
    [][(op'.name = "request_inner_size" /\ op'.resize_res = "err") =>
         /\ op'.ret = <<>>
         /\ UNCHANGED <<inner_size, event_queue, fullscreen, animation_state,
                        window_rect, screen_size, surface_size>>]_vars

\* A resize has failed on a window with a queued event and both flags set.
C7_Witness ==
    /\ op.name = "request_inner_size"
    /\ op.resize_res = "err"
    /\ event_queue # <<>>
    /\ fullscreen
    /\ animation_state = "Animating"

\* C8: the events returned by get_events so far, followed by the events
\* still queued, are the events pushed, each once and in the order of the
\* pushes; after a get_events call under a healthy lock every event pushed
\* has been returned.
C8_EachEventDeliveredOnce ==
    /\ delivered \o event_queue = AllPushed
    /\ (op.name = "get_events" /\ ~poisoned) => delivered = AllPushed

\* A get_events call has returned an event after an earlier call returned
\* another one.
C8_Witness ==
    /\ op.name = "get_events"
    /\ Len(op.ret) = 1
    /\ Len(delivered) = 2

\* C9: a get_events call under a healthy lock returns exactly what was
\* queued and leaves the queue empty, and a get_events call right after
\* another returns an empty sequence.
C9_SecondDrainIsEmpty ==
    [][/\ (op'.name = "get_events" /\ ~poisoned) =>
            /\ op'.ret = event_queue
            /\ event_queue' = <<>>
       /\ (op.name = "get_events" /\ op'.name = "get_events") =>
            op'.ret = <<>>]_vars

\* A get_events call has returned nothing after events were returned
\* before, under a healthy lock.
C9_Witness ==
    /\ op.name = "get_events"
    /\ op.ret = <<>>
    /\ delivered # <<>>
    /\ ~poisoned

\* C10: the snapshot of get_coordinates has its viewport at the origin,
\* with the size of the current inner_size, and a framebuffer of the
\* current inner_size.
C10_ViewportIsInnerSize ==
    op.name = "get_coordinates" =>
        /\ op.ret[1].viewport.min = <<0, 0>>
        /\ op.ret[1].viewport.max = inner_size
        /\ op.ret[1].framebuffer = inner_size

\* A snapshot taken after a resize moved inner_size away from the logical
\* size.
C10_Witness ==
    /\ op.name = "get_coordinates"
    /\ pushed > 0
    /\ inner_size # LogicalSize

\* The screen size the window was constructed for: the configured override,
\* or else the logical size asked for.
ConstructedScreenSize ==
    IF constructed.screen_size_override = <<>>
    THEN constructed.size ELSE constructed.screen_size_override[1]

\* The scale <<num, den>> is 1.0.
IsOne(scale) == scale[1] = scale[2]

\* The names of the calls without a headless meaning, with what each
\* returns (<<"unimplemented">> for the ones that signal it).
Unsupported ==
    [queue_embedder_events_for_winit_event |-> <<>>,
     new_glwindow |-> <<"unimplemented">>,
     winit_window |-> <<>>,
     toolbar_height |-> <<0>>,
     set_toolbar_height |-> <<"unimplemented">>,
     get_render_target |-> <<"unimplemented">>,
     get_rotation |-> << <<0, 0, 0, 1>> >>,
     get_translation |-> << <<0, 0, 0>> >>]

\* C11: in every reachable state window_rect is the box at the origin with
\* the logical size asked for at construction and screen_size is the
\* configured override or else that logical size, and get_coordinates
\* reports exactly these as window rectangle, screen size and available
\* screen size.
C11_RectAndScreenFixed ==
    /\ window_rect = [min |-> <<0, 0>>, max |-> constructed.size]
    /\ screen_size = ConstructedScreenSize
    /\ op.name = "get_coordinates" =>
         /\ op.ret[1].window_rect = [min |-> <<0, 0>>, max |-> constructed.size]
         /\ op.ret[1].screen_size = ConstructedScreenSize
         /\ op.ret[1].available_screen_size = ConstructedScreenSize

\* A snapshot taken of a window without a screen-size override, with a
\* ratio override, after resizes, a drain and a fullscreen switch moved
\* inner_size away from the logical size.
C11_Witness ==
    /\ op.name = "get_coordinates"
    /\ constructed.screen_size_override = <<>>
    /\ constructed.device_pixel_ratio_override # <<>>
    /\ size_changes > 0
    /\ delivered # <<>>
    /\ fullscreen
    /\ inner_size # constructed.size

C14_PoisonedDrainReturnsNothing ==
    [][(op'.name = "get_events" /\ poisoned) =>
         /\ op'.ret = <<>>
         /\ UNCHANGED window]_vars

\* A get_events call returned nothing from a poisoned lock with an event
\* still queued.
C14_Witness ==
    /\ op.name = "get_events"
    /\ poisoned
    /\ op.ret = <<>>
    /\ event_queue # <<>>

\* C15: the window starts not fullscreen and Idle; set_fullscreen and
\* set_animation_state store their argument and change neither inner_size,
\* the event queue, the surface nor the other flag; no other call changes
\* a flag; get_fullscreen returns the fullscreen flag and is_animating
\* whether the animation state is Animating.
C15_FlagsArePlain ==
    [][/\ op.name = "new" => (~fullscreen /\ animation_state = "Idle")
       /\ op'.name = "set_fullscreen" =>
            /\ fullscreen' = op'.arg[1]
            /\ UNCHANGED <<inner_size, event_queue, surface_size, animation_state>>
       /\ op'.name = "set_animation_state" =>
            /\ animation_state' = op'.arg[1]
            /\ UNCHANGED <<inner_size, event_queue, surface_size, fullscreen>>
       /\ op'.name # "set_fullscreen" => fullscreen' = fullscreen
       /\ op'.name # "set_animation_state" => animation_state' = animation_state
       /\ op'.name = "get_fullscreen" => op'.ret = <<fullscreen>>
       /\ op'.name = "is_animating" =>
            op'.ret = <<animation_state = "Animating">>]_vars

\* is_animating answered TRUE on a fullscreen window with a queued event.
C15_Witness ==
    /\ op.name = "is_animating"
    /\ op.ret = <<TRUE>>
    /\ fullscreen
    /\ event_queue # <<>>

\* C16: each call without a headless meaning returns its fixed default or
\* signals that it is unimplemented, and leaves inner_size, the event queue,
\* the fullscreen flag, the animation state and every other field as they
\* were.
C16_UnsupportedCallsChangeNothing ==
    [][op'.name \in DOMAIN Unsupported =>
         /\ op'.ret = Unsupported[op'.name]
         /\ UNCHANGED window]_vars

\* A winit event was handed to a fullscreen window with a queued event.
C16_Witness ==
    /\ op.name = "queue_embedder_events_for_winit_event"
    /\ Len(event_queue) = 1
    /\ fullscreen

\* C17: as long as the lock is not poisoned, the events returned by
\* get_events plus the events queued number the changes of inner_size;
\* the queue holds window-resize events only; a request_inner_size call
\* that leaves inner_size at its value adds no event.
C17_EventsCountSizeChanges ==
    [][/\ ~poisoned => Len(delivered) + Len(event_queue) = size_changes
       /\ ~poisoned' => Len(delivered') + Len(event_queue') = size_changes'
       /\ \A i \in 1..Len(event_queue') : event_queue'[i].type = "WindowResize"
       /\ (op'.name = "request_inner_size" /\ inner_size' = inner_size) =>
            event_queue' = event_queue]_vars

\* inner_size has changed twice; one event was returned and one is queued.
C17_Witness ==
    /\ ~poisoned
    /\ size_changes = 2
    /\ Len(delivered) = 1
    /\ Len(event_queue) = 1

\* C18: with get_events called again and again, every queued event is
\* eventually returned by get_events unless the lock gets poisoned, and
\* get_events can always be called (it never waits for the queue).
C18_EveryEventEventuallyDelivered ==
    /\ [](ENABLED GetEvents)
    /\ \A i \in 1..MaxEvents :
         (\E k \in 1..Len(event_queue) : event_queue[k].seq = i)
           ~> (poisoned \/ \E k \in 1..Len(delivered) : delivered[k].seq = i)

\* The second event pushed has been returned by get_events.
C18_Witness ==
    /\ ~poisoned
    /\ op.name = "get_events"
    /\ \E k \in 1..Len(op.ret) : op.ret[k].seq = 2

====
